---- MODULE Spec2Model ----
(***************************************************************************)
(* Model of PS2p2/heat.c: an MPI solver for 2D heat diffusion.  One        *)
(* process per rank of a non-periodic 2D cartesian mesh; every rank owns a *)
(* block of the grid with a ghost border of width 1, exchanges borders     *)
(* with its four neighbours, applies the FTCS stencil, and rank 0 scatters *)
(* the initial field and gathers snapshots.                                *)
(*                                                                         *)
(* C arrays are functions over 0..n-1.  Floats are modelled by integers    *)
(* (exact arithmetic).  A pair such as dims[2] is a function over 0..1, so *)
(* dims[0] and dims[1] read as in the source.                              *)
(***************************************************************************)
EXTENDS Integers, Sequences, FiniteSets, TLC

(* Bounds of the model. *)
MaxSize == 4
MaxLocal == 2
MaxField == 1
NSTEPS == 3
SNAPSHOT == 2
HeatSteps == 1

(* Program constants. *)
BORDER == 1
MPI_PROC_NULL == -1
HEAT == 100
FILL == 10

VARIABLES
    size,            \* number of ranks (MPI_Comm_size)
    dims,            \* extent of the cartesian mesh
    GRID_SIZE,       \* extent of the global grid
    local_grid_size, \* extent of a rank's subdomain
    CUTOFF,          \* first step without external heat
    buffered,        \* TRUE: MPI_Send completes eagerly; FALSE: at the matching receive
    material,        \* global material constants, on rank 0
    temperature,     \* global temperature field, on rank 0
    local_material,  \* [rank] local part of the material
    local_temp,      \* [rank][0..1] local part of the temperature, two buffers
    displs,          \* [rank] displacement table (filled on rank 0 only)
    sendcounts,      \* [rank] block counts (filled on rank 0 only)
    pc,              \* [rank] the statement a rank is at
    call,            \* [rank] the next MPI call inside border_exchange (1..8)
    step,            \* [rank] loop counter of main
    chan,            \* [<<src, dst>>] point-to-point messages in flight
    scat,            \* [rank] blocks of a scatter in flight from rank 0
    gath,            \* [rank] blocks of a gather in flight to rank 0
    xdone,           \* [rank] MPI calls of border_exchange completed in this step
    snap,            \* [rank] the buffers the rank handed to its gather_temp calls
    loaded           \* the temperature field as init_temp_material left it

vars == <<size, dims, GRID_SIZE, local_grid_size, CUTOFF, buffered, material, temperature, local_material,
          local_temp, displs, sendcounts, pc, call, step, chan, scat, gath, xdone,
          snap, loaded>>

Pair(a, b) == [i \in 0..1 |-> IF i = 0 THEN a ELSE b]

Ranks == 0 .. size - 1

\* Every rank a run of the model can have.
Procs == 0 .. MaxSize - 1

(***************************************************************************)
(* The process mesh (MPI_Dims_create, MPI_Cart_create, MPI_Cart_coords,    *)
(* MPI_Cart_rank, MPI_Cart_shift; periods = {false, false}).               *)
(***************************************************************************)

\* The balanced factorisation, dims[0] >= dims[1].
MPI_Dims_create(n) ==
    LET ok(a) == n % a = 0 /\ a >= n \div a
        a0 == CHOOSE a \in 1..n : ok(a) /\ \A b \in 1..n : ok(b) => a <= b
    IN  Pair(a0, n \div a0)

\* Row-major: the last coordinate varies fastest.
MPI_Cart_coords(r) == Pair(r \div dims[1], r % dims[1])

\* Faulty variant: the first coordinate is taken to vary fastest.
MPI_Cart_rank_column_major(c) == c[1] * dims[0] + c[0]

MPI_Cart_rank(c) == c[0] * dims[1] + c[1]

coords(w) == MPI_Cart_coords(w)

\* Faulty variant: the mesh wraps around in both directions.
periodic == Pair(TRUE, TRUE)

periods == Pair(FALSE, FALSE)

\* <<source, dest>> of a shift by disp along direction.
MPI_Cart_shift(w, direction, disp) ==
    LET moved(d) == [i \in 0..1 |-> IF i = direction THEN coords(w)[i] + d ELSE coords(w)[i]]
        wrap(c)  == [i \in 0..1 |-> c[i] % dims[i]]
        at(d)    == IF moved(d)[direction] \in 0 .. dims[direction] - 1
                       THEN MPI_Cart_rank(moved(d))
                    ELSE IF periods[direction] THEN MPI_Cart_rank(wrap(moved(d)))
                    ELSE MPI_PROC_NULL
    IN  <<at(-disp), at(disp)>>

north(w) == MPI_Cart_shift(w, 1, 1)[1]
south(w) == MPI_Cart_shift(w, 1, 1)[2]
west(w)  == MPI_Cart_shift(w, 0, 1)[1]
east(w)  == MPI_Cart_shift(w, 0, 1)[2]

Neighbour(w, d) ==
    CASE d = "north" -> north(w)
      [] d = "south" -> south(w)
      [] d = "west"  -> west(w)
      [] d = "east"  -> east(w)

(***************************************************************************)
(* The subdomain layout.                                                   *)
(***************************************************************************)
local_origin(w) == [i \in 0..1 |-> coords(w)[i] * local_grid_size[i]]

ti(x, y) == y * GRID_SIZE[0] + x

mi(x, y) == (y + (BORDER - 1)) * (GRID_SIZE[0] + 2 * (BORDER - 1)) + x + (BORDER - 1)

lmi(x, y) == (y + (BORDER - 1)) * (local_grid_size[0] + 2 * (BORDER - 1)) + x + (BORDER - 1)

lti(x, y) == (y + BORDER) * (local_grid_size[0] + 2 * BORDER) + x + BORDER

\* Faulty variant: the window is closed at its upper ends.
inside_closed(w, x, y) ==
    /\ x >= local_origin(w)[0]
    /\ x <= local_origin(w)[0] + local_grid_size[0]
    /\ y >= local_origin(w)[1]
    /\ y <= local_origin(w)[1] + local_grid_size[1]

inside(w, x, y) ==
    /\ x >= local_origin(w)[0]
    /\ x < local_origin(w)[0] + local_grid_size[0]
    /\ y >= local_origin(w)[1]
    /\ y < local_origin(w)[1] + local_grid_size[1]

temperature_size == GRID_SIZE[0] * GRID_SIZE[1]
material_size == (GRID_SIZE[0] + 2 * (BORDER - 1)) * (GRID_SIZE[1] + 2 * (BORDER - 1))
lsize_borders == (local_grid_size[0] + 2 * BORDER) * (local_grid_size[1] + 2 * BORDER)
lsize == (local_grid_size[0] + 2 * (BORDER - 1)) * (local_grid_size[1] + 2 * (BORDER - 1))

(***************************************************************************)
(* MPI datatypes: a type map (the element offsets, in order) and an        *)
(* extent, both counted in floats.                                         *)
(***************************************************************************)
MPI_FLOAT == [map |-> <<0>>, extent |-> 1]

MPI_Type_vector(count, blocklength, stride) ==
    [map    |-> [k \in 1 .. count * blocklength |->
                    ((k - 1) \div blocklength) * stride + ((k - 1) % blocklength)],
     extent |-> (count - 1) * stride + blocklength]

MPI_Type_create_resized(type, lb, extent) == [map |-> type.map, extent |-> extent]

border_row == MPI_Type_vector(local_grid_size[0], 1, 1)

border_col == MPI_Type_vector(local_grid_size[1], 1, local_grid_size[0] + 2)

\* Faulty variant: the rows of a block are taken to lie one local row apart.
scatter_local_stride ==
    MPI_Type_vector(local_grid_size[1], local_grid_size[0], local_grid_size[0])

scatter_big_cart == MPI_Type_vector(local_grid_size[1], local_grid_size[0], GRID_SIZE[0])

localCart == MPI_Type_create_resized(scatter_big_cart, 0, 1)

\* Faulty variant: the local rows are taken to have no ghost columns.
gather_no_halo == MPI_Type_vector(local_grid_size[1], local_grid_size[0], local_grid_size[0])

gather_Temp == MPI_Type_vector(local_grid_size[1], local_grid_size[0], local_grid_size[0] + 2)

\* The offsets, from the buffer address, of count elements of a type.
TypeOffsets(count, type) ==
    LET n == Len(type.map)
    IN  [k \in 1 .. count * n |-> ((k - 1) \div n) * type.extent + type.map[((k - 1) % n) + 1]]

\* What a send reads: the values at the type's offsets from base.
Pack(buf, base, count, type) ==
    LET off == TypeOffsets(count, type)
    IN  [k \in 1 .. Len(off) |-> buf[base + off[k]]]

\* What a receive writes: data laid out at the type's offsets from base.
Unpack(buf, base, count, type, data) ==
    LET off == TypeOffsets(count, type)
    IN  [i \in DOMAIN buf |->
            IF \E k \in 1 .. Len(off) : base + off[k] = i
               THEN data[CHOOSE k \in 1 .. Len(off) : base + off[k] = i]
               ELSE buf[i]]

(***************************************************************************)
(* Construction: init_local_temp and the calloc'ed arrays.                 *)
(***************************************************************************)
init_local_temp == [b \in 0..1 |-> [i \in 0 .. lsize_borders - 1 |-> FILL]]

calloc(n) == [i \in 0 .. n - 1 |-> 0]

(***************************************************************************)
(* helpFunctionForDisplacement: rank 0 walks the mesh, y outermost.        *)
(***************************************************************************)
\* Faulty variant: the column offset of the block is left out.
DisplacementRowOnly(x, y) == local_grid_size[1] * GRID_SIZE[0] * y

Displacement(x, y) ==
    LET dis_y == local_grid_size[1] * GRID_SIZE[0] * y
        dis_x == local_grid_size[0] * x
    IN  dis_y + dis_x

RECURSIVE DisplacementLoop(_, _)
DisplacementLoop(k, tab) ==
    IF k >= dims[0] * dims[1] THEN tab
    ELSE LET x == k % dims[0]
             y == k \div dims[0]
             position == MPI_Cart_rank(Pair(x, y))
         IN  DisplacementLoop(k + 1,
                 [displs     |-> [tab.displs EXCEPT ![position] = Displacement(x, y)],
                  sendcounts |-> [tab.sendcounts EXCEPT ![position] = 1]])

helpFunctionForDisplacement(w, tab) ==
    IF w = 0 THEN DisplacementLoop(0, tab) ELSE tab

(***************************************************************************)
(* The collectives.  Rank 0 hands every other rank its block (scatter) or  *)
(* waits for every other rank's block (gather); its own block is copied in *)
(* the call.  Blocks travel in order per rank.                             *)
(***************************************************************************)
\* The block of sendbuf that MPI_Scatterv sends to rank r.
ScatterBlock(sendbuf, base, counts, dis, type, r) ==
    Pack(sendbuf, base + dis[r] * type.extent, counts[r], type)

\* MPI_Gatherv on the root: the blocks of ranks r, r+1, ... laid into recvbuf.
RECURSIVE GatherLoop(_, _, _, _, _, _, _)
GatherLoop(r, recvbuf, base, counts, dis, type, blocks) ==
    IF r >= size THEN recvbuf
    ELSE GatherLoop(r + 1,
             Unpack(recvbuf, base + dis[r] * type.extent, counts[r], type, blocks[r]),
             base, counts, dis, type, blocks)

ScatterMaterialThen(w, next) ==
    /\ w \in Ranks
    /\ pc[w] = "scatter_material"
    /\ LET tab == helpFunctionForDisplacement(w,
                      [displs |-> displs[w], sendcounts |-> sendcounts[w]])
           blk(r) == ScatterBlock(material, mi(0, 0), tab.sendcounts, tab.displs, localCart, r)
           count == local_grid_size[1] * local_grid_size[0]
       IN  /\ displs' = [displs EXCEPT ![w] = tab.displs]
           /\ sendcounts' = [sendcounts EXCEPT ![w] = tab.sendcounts]
           /\ IF w = 0
                 THEN /\ scat' = [r \in Ranks |-> IF r = 0 THEN scat[r] ELSE Append(scat[r], blk(r))]
                      /\ local_material' = [local_material EXCEPT
                             ![w] = Unpack(@, lmi(0, 0), count, MPI_FLOAT, blk(w))]
                 ELSE /\ scat[w] # <<>>
                      /\ scat' = [scat EXCEPT ![w] = Tail(@)]
                      /\ local_material' = [local_material EXCEPT
                             ![w] = Unpack(@, lmi(0, 0), count, MPI_FLOAT, Head(scat[w]))]
    /\ pc' = [pc EXCEPT ![w] = next]
    /\ UNCHANGED <<size, dims, GRID_SIZE, local_grid_size, CUTOFF, buffered, material, temperature, local_temp,
                   call, step, chan, gath, xdone, snap, loaded>>

ScatterTempThen(w, next) ==
    /\ w \in Ranks
    /\ pc[w] = "scatter_temp"
    /\ LET blk(r) == ScatterBlock(temperature, ti(0, 0), sendcounts[w], displs[w], localCart, r)
       IN  IF w = 0
              THEN /\ scat' = [r \in Ranks |-> IF r = 0 THEN scat[r] ELSE Append(scat[r], blk(r))]
                   /\ local_temp' = [local_temp EXCEPT
                          ![w][0] = Unpack(@, lti(0, 0), 1, gather_Temp, blk(w))]
              ELSE /\ scat[w] # <<>>
                   /\ scat' = [scat EXCEPT ![w] = Tail(@)]
                   /\ local_temp' = [local_temp EXCEPT
                          ![w][0] = Unpack(@, lti(0, 0), 1, gather_Temp, Head(scat[w]))]
    /\ pc' = [pc EXCEPT ![w] = next]
    /\ UNCHANGED <<size, dims, GRID_SIZE, local_grid_size, CUTOFF, buffered, material, temperature, local_material,
                   displs, sendcounts, call, step, chan, gath, xdone, snap, loaded>>

\* Faulty variant: gather_temp hands over the buffer the solver has just written.
GatherNextBuffer(w) == local_temp[w][(step[w] + 1) % 2]

\* The buffer gather_temp(step) sends from.
GatherBuffer(w) == local_temp[w][step[w] % 2]

GatherTempThen(w, next) ==
    /\ w \in Ranks
    /\ pc[w] = "gather_temp"
    /\ LET mine == Pack(GatherBuffer(w), lti(0, 0), 1, gather_Temp)
           blocks == [r \in Ranks |-> IF r = w THEN mine ELSE Head(gath[r])]
       IN  IF w = 0
              THEN /\ \A r \in Ranks \ {0} : gath[r] # <<>>
                   /\ gath' = [r \in Ranks |-> IF r = 0 THEN gath[r] ELSE Tail(gath[r])]
                   /\ temperature' = GatherLoop(0, temperature, ti(0, 0), sendcounts[w],
                                                displs[w], localCart, blocks)
              ELSE /\ gath' = [gath EXCEPT ![w] = Append(@, mine)]
                   /\ UNCHANGED temperature
    /\ snap' = [snap EXCEPT ![w] = Append(@, [step |-> step[w],
                                               buf  |-> local_temp[w][step[w] % 2]])]
    /\ pc' = [pc EXCEPT ![w] = next]
    /\ UNCHANGED <<size, dims, GRID_SIZE, local_grid_size, CUTOFF, buffered, material, local_material, local_temp,
                   displs, sendcounts, call, step, chan, scat, xdone, loaded>>

(***************************************************************************)
(* external_heat: the ranks that hold a cell of the patch set it to HEAT.  *)
(***************************************************************************)
HeatPatch ==
    { c \in (0 .. GRID_SIZE[0] - 1) \X (0 .. GRID_SIZE[1] - 1) :
        /\ c[1] >= GRID_SIZE[0] \div 4
        /\ c[1] <= (3 * GRID_SIZE[0]) \div 4
        /\ c[2] >= (GRID_SIZE[1] \div 2) - (GRID_SIZE[1] \div 16)
        /\ c[2] <= (GRID_SIZE[1] \div 2) + (GRID_SIZE[1] \div 16) }

external_heat(w, buf) ==
    LET hit == { lti(c[1] - local_origin(w)[0], c[2] - local_origin(w)[1]) :
                     c \in { d \in HeatPatch : inside(w, d[1], d[2]) } }
    IN  [i \in DOMAIN buf |-> IF i \in hit THEN HEAT ELSE buf[i]]

(***************************************************************************)
(* ftcs_solver: x outermost, y innermost, one cell of out per iteration.   *)
(***************************************************************************)
\* Faulty variant: the centre cell is taken three times, not four.
StencilThree(in, mat, x, y) ==
    in[lti(x, y)] + mat[lmi(x, y)] *
        (in[lti(x + 1, y)] + in[lti(x - 1, y)] + in[lti(x, y + 1)] + in[lti(x, y - 1)]
         - 3 * in[lti(x, y)])

Stencil(in, mat, x, y) ==
    in[lti(x, y)] + mat[lmi(x, y)] *
        (in[lti(x + 1, y)] + in[lti(x - 1, y)] + in[lti(x, y + 1)] + in[lti(x, y - 1)]
         - 4 * in[lti(x, y)])

RECURSIVE ftcs_loop(_, _, _, _)
ftcs_loop(k, in, mat, out) ==
    IF k >= local_grid_size[0] * local_grid_size[1] THEN out
    ELSE LET x == k \div local_grid_size[1]
             y == k % local_grid_size[1]
         IN  ftcs_loop(k + 1, in, mat, [out EXCEPT ![lti(x, y)] = Stencil(in, mat, x, y)])

\* Faulty variant: the solver updates the buffer it reads.
ftcs_in_place(s, temp, mat) ==
    [temp EXCEPT ![s % 2] = ftcs_loop(0, temp[s % 2], mat, temp[s % 2])]

\* The two buffers of a rank after ftcs_solver(s).
ftcs_solver(s, temp, mat) ==
    [temp EXCEPT ![(s + 1) % 2] = ftcs_loop(0, temp[s % 2], mat, temp[(s + 1) % 2])]

(***************************************************************************)
(* border_exchange: eight blocking calls, in this order.  buf names the    *)
(* buffer of the address (in = local_temp[step%2], out = the other one),   *)
(* x and y the cell the address points at, peer the neighbour.             *)
(***************************************************************************)
SendNorth == [name |-> "send_north", kind |-> "send", buf |-> "out", x |-> 0, y |-> 0,
              type |-> "border_row", peer |-> "north"]

RecvNorth == [name |-> "recv_north", kind |-> "recv", buf |-> "in", x |-> 0, y |-> -1,
              type |-> "border_row", peer |-> "north"]

RecvSouth == [name |-> "recv_south", kind |-> "recv", buf |-> "in", x |-> 0,
              y |-> local_grid_size[1], type |-> "border_row", peer |-> "south"]

SendSouth == [name |-> "send_south", kind |-> "send", buf |-> "out", x |-> 0,
              y |-> local_grid_size[1], type |-> "border_row", peer |-> "south"]

SendWest == [name |-> "send_west", kind |-> "send", buf |-> "out", x |-> 0, y |-> 0,
             type |-> "border_col", peer |-> "west"]

\* Faulty variant: the receive from west starts one row up, in the corner.
RecvWestCorner == [name |-> "recv_west", kind |-> "recv", buf |-> "in", x |-> -1, y |-> -1,
                   type |-> "border_col", peer |-> "west"]

RecvWest == [name |-> "recv_west", kind |-> "recv", buf |-> "in", x |-> -1, y |-> 0,
             type |-> "border_col", peer |-> "west"]

RecvEast == [name |-> "recv_east", kind |-> "recv", buf |-> "in", x |-> local_grid_size[0],
             y |-> 0, type |-> "border_col", peer |-> "east"]

SendEast == [name |-> "send_east", kind |-> "send", buf |-> "out",
             x |-> local_grid_size[0] - 1, y |-> 0, type |-> "border_col", peer |-> "east"]

\* Faulty variant: every direction receives first and sends second.
BorderExchangeRecvFirst ==
    <<RecvNorth, SendNorth, RecvSouth, SendSouth, RecvWest, SendWest, RecvEast, SendEast>>

\* Faulty variant: every direction sends first and receives second.
BorderExchangeSendFirst ==
    <<SendNorth, RecvNorth, SendSouth, RecvSouth, SendWest, RecvWest, SendEast, RecvEast>>

\* Faulty variant: the west calls are made before the south calls.
BorderExchangeWestEarly ==
    <<SendNorth, RecvNorth, SendWest, RecvWest, RecvSouth, SendSouth, RecvEast, SendEast>>

BorderExchangeCalls ==
    <<SendNorth, RecvNorth, RecvSouth, SendSouth, SendWest, RecvWest, RecvEast, SendEast>>

CurrentCall(w) == BorderExchangeCalls[call[w]]

\* Faulty variant: no call of border_exchange has a peer.
PeerMissing(w, c) == MPI_PROC_NULL

PeerOf(w, c) == Neighbour(w, c.peer)

BufferOf(s, c) == IF c.buf = "in" THEN s % 2 ELSE (s + 1) % 2

BorderType(c) == IF c.type = "border_row" THEN border_row ELSE border_col

\* Faulty variant: the transport gives the sentinel no meaning, and the call waits.
NullCallWaits(p) == FALSE

\* A send or receive with MPI_PROC_NULL returns at once and moves nothing.
NullCallReturns(p) == p = MPI_PROC_NULL

\* The data a send call of rank w carries.
SendData(w, c) == Pack(local_temp[w][BufferOf(step[w], c)], lti(c.x, c.y), 1, BorderType(c))

\* A message in flight: the data, and a record of the call and the step
\* that sent it (the receiver reads the data only).
Message(w, c) == [data |-> SendData(w, c), step |-> step[w], call |-> c.name]

\* The buffers of rank w after a receive call has delivered data.
RecvInto(w, c, data) ==
    [local_temp[w] EXCEPT ![BufferOf(step[w], c)] =
        Unpack(@, lti(c.x, c.y), 1, BorderType(c), data)]

InExchange(w) == w \in Ranks /\ pc[w] = "border_exchange"

\* The position of rank w after the call it is at has returned.
Returned(w, pcs, calls, dones) ==
    [pc    |-> IF call[w] = Len(BorderExchangeCalls)
                  THEN [pcs EXCEPT ![w] = "ftcs_solver"] ELSE pcs,
     call  |-> [calls EXCEPT ![w] = IF call[w] = Len(BorderExchangeCalls) THEN 1 ELSE @ + 1],
     xdone |-> [dones EXCEPT ![w] = @ \cup {CurrentCall(w).name}]]

NullCall(w) ==
    /\ InExchange(w)
    /\ NullCallReturns(PeerOf(w, CurrentCall(w)))
    /\ LET r == Returned(w, pc, call, xdone)
       IN  pc' = r.pc /\ call' = r.call /\ xdone' = r.xdone
    /\ UNCHANGED <<size, dims, GRID_SIZE, local_grid_size, CUTOFF, buffered, material, temperature, local_material,
                   local_temp, displs, sendcounts, step, chan, scat, gath, snap, loaded>>

\* MPI_Send that the transport buffers: it returns with the message in flight.
SendEager(w) ==
    /\ InExchange(w)
    /\ buffered
    /\ CurrentCall(w).kind = "send"
    /\ PeerOf(w, CurrentCall(w)) \in Ranks
    /\ chan' = [chan EXCEPT ![<<w, PeerOf(w, CurrentCall(w))>>] =
                   Append(@, Message(w, CurrentCall(w)))]
    /\ LET r == Returned(w, pc, call, xdone)
       IN  pc' = r.pc /\ call' = r.call /\ xdone' = r.xdone
    /\ UNCHANGED <<size, dims, GRID_SIZE, local_grid_size, CUTOFF, buffered, material, temperature, local_material,
                   local_temp, displs, sendcounts, step, scat, gath, snap, loaded>>

\* MPI_Recv of a message in flight.
RecvEager(w) ==
    /\ InExchange(w)
    /\ CurrentCall(w).kind = "recv"
    /\ PeerOf(w, CurrentCall(w)) \in Ranks
    /\ chan[<<PeerOf(w, CurrentCall(w)), w>>] # <<>>
    /\ local_temp' = [local_temp EXCEPT
           ![w] = RecvInto(w, CurrentCall(w), Head(chan[<<PeerOf(w, CurrentCall(w)), w>>]).data)]
    /\ chan' = [chan EXCEPT ![<<PeerOf(w, CurrentCall(w)), w>>] = Tail(@)]
    /\ LET r == Returned(w, pc, call, xdone)
       IN  pc' = r.pc /\ call' = r.call /\ xdone' = r.xdone
    /\ UNCHANGED <<size, dims, GRID_SIZE, local_grid_size, CUTOFF, buffered, material, temperature, local_material,
                   displs, sendcounts, step, scat, gath, snap, loaded>>

\* MPI_Send without buffering: it returns when the peer is in the matching
\* MPI_Recv, and both calls return together.
SendSync(w) ==
    /\ InExchange(w)
    /\ ~buffered
    /\ CurrentCall(w).kind = "send"
    /\ PeerOf(w, CurrentCall(w)) \in Ranks
    /\ LET p == PeerOf(w, CurrentCall(w))
       IN  /\ InExchange(p)
           /\ CurrentCall(p).kind = "recv"
           /\ PeerOf(p, CurrentCall(p)) = w
           /\ local_temp' = [local_temp EXCEPT
                  ![p] = RecvInto(p, CurrentCall(p), SendData(w, CurrentCall(w)))]
           /\ LET r1 == Returned(w, pc, call, xdone)
                  r2 == Returned(p, r1.pc, r1.call, r1.xdone)
              IN  pc' = r2.pc /\ call' = r2.call /\ xdone' = r2.xdone
    /\ UNCHANGED <<size, dims, GRID_SIZE, local_grid_size, CUTOFF, buffered, material, temperature, local_material,
                   displs, sendcounts, step, chan, scat, gath, snap, loaded>>

(***************************************************************************)
(* main: the statements of the integration loop.                           *)
(***************************************************************************)
\* for( int step=0; step<NSTEPS; ... ): the entry of the loop.
ForInit(w) ==
    /\ w \in Ranks
    /\ pc[w] = "for_init"
    /\ step' = [step EXCEPT ![w] = 0]
    /\ pc' = [pc EXCEPT ![w] = IF 0 < NSTEPS THEN "external_heat" ELSE "done"]
    /\ UNCHANGED <<size, dims, GRID_SIZE, local_grid_size, CUTOFF, buffered, material,
                   temperature, local_material, local_temp, displs, sendcounts, call, chan,
                   scat, gath, xdone, snap, loaded>>

\* for( ...; step<NSTEPS; step += 1 ): the end of an iteration.
ForNext(w) ==
    /\ w \in Ranks
    /\ pc[w] = "for_next"
    /\ step' = [step EXCEPT ![w] = @ + 1]
    /\ xdone' = [xdone EXCEPT ![w] = {}]
    /\ pc' = [pc EXCEPT ![w] = IF step[w] + 1 < NSTEPS THEN "external_heat" ELSE "done"]
    /\ UNCHANGED <<size, dims, GRID_SIZE, local_grid_size, CUTOFF, buffered, material,
                   temperature, local_material, local_temp, displs, sendcounts, call, chan,
                   scat, gath, snap, loaded>>

ExternalHeat(w) ==
    /\ w \in Ranks
    /\ pc[w] = "external_heat"
    /\ local_temp' = [local_temp EXCEPT ![w][step[w] % 2] =
                          IF step[w] < CUTOFF THEN external_heat(w, @) ELSE @]
    /\ pc' = [pc EXCEPT ![w] = "border_exchange"]
    /\ call' = [call EXCEPT ![w] = 1]
    /\ UNCHANGED <<size, dims, GRID_SIZE, local_grid_size, CUTOFF, buffered, material, temperature, local_material,
                   displs, sendcounts, step, chan, scat, gath, xdone, snap, loaded>>

FtcsSolverThen(w, next) ==
    /\ w \in Ranks
    /\ pc[w] = "ftcs_solver"
    /\ local_temp' = [local_temp EXCEPT ![w] = ftcs_solver(step[w], @, local_material[w])]
    /\ pc' = [pc EXCEPT ![w] = next]
    /\ UNCHANGED <<size, dims, GRID_SIZE, local_grid_size, CUTOFF, buffered, material, temperature, local_material,
                   displs, sendcounts, call, step, chan, scat, gath, xdone, snap, loaded>>

WriteTemp(w) ==
    /\ w \in Ranks
    /\ pc[w] = "write_temp"
    /\ pc' = [pc EXCEPT ![w] = "for_next"]
    /\ UNCHANGED <<size, dims, GRID_SIZE, local_grid_size, CUTOFF, buffered, material, temperature, local_material,
                   local_temp, displs, sendcounts, call, step, chan, scat, gath, xdone, snap, loaded>>

ScatterMaterial(w) == ScatterMaterialThen(w, "scatter_temp")

ScatterTemp(w) == ScatterTempThen(w, "for_init")

\* ftcs_solver( step ); if((step % SNAPSHOT) == 0) ...
FtcsSolver(w) ==
    FtcsSolverThen(w, IF step[w] % SNAPSHOT = 0 THEN "gather_temp" ELSE "for_next")

\* gather_temp ( step ); if(rank == 0) ...
GatherTemp(w) == GatherTempThen(w, IF w = 0 THEN "write_temp" ELSE "for_next")

(***************************************************************************)
(* The initial conditions.  init_temp_material is the loader of the        *)
(* initial field; here the temperature is drawn from a family: a base      *)
(* value plus a multiple of the square of the cell index (distinct cells   *)
(* hold distinct values, and the field is not harmonic).                   *)
(***************************************************************************)
Field(n, base, k) == [i \in 0 .. n - 1 |-> base + k * i * i]

\* Material constants: small, and different in neighbouring cells when k > 0.
Material(n, k) == [i \in 0 .. n - 1 |-> (k * i) % 3]

\* The communication state and the tables of every rank before its first call.
Started ==
    /\ displs = [w \in Ranks |-> calloc(size)]
    /\ sendcounts = [w \in Ranks |-> calloc(size)]
    /\ call = [w \in Ranks |-> 1]
    /\ chan = [c \in Ranks \X Ranks |-> <<>>]
    /\ scat = [w \in Ranks |-> <<>>]
    /\ gath = [w \in Ranks |-> <<>>]
    /\ xdone = [w \in Ranks |-> {}]
    /\ snap = [w \in Ranks |-> <<>>]

\* The state after the allocations and init_local_temp, in every rank.
Constructed ==
    /\ local_material = [w \in Ranks |-> calloc(lsize)]
    /\ local_temp = [w \in Ranks |-> init_local_temp]
    /\ step = [w \in Ranks |-> 0]
    /\ Started

\* main up to commit_vector_types: the mesh of n ranks, every rank owning
\* lx by ly cells.
Mesh(n, lx, ly) ==
    /\ size = n
    /\ dims = MPI_Dims_create(n)
    /\ local_grid_size = Pair(lx, ly)
    /\ GRID_SIZE = Pair(MPI_Dims_create(n)[0] * lx, MPI_Dims_create(n)[1] * ly)

Init ==
    /\ \E n \in 1 .. MaxSize, lx, ly \in 1 .. MaxLocal : Mesh(n, lx, ly)
    /\ CUTOFF = HeatSteps
    /\ buffered \in BOOLEAN
    /\ temperature = Field(temperature_size, 20, MaxField)
    /\ material = Material(material_size, MaxField)
    /\ loaded = temperature
    /\ Constructed
    /\ pc = [w \in Ranks |-> "scatter_material"]

\* The round trip is tried on every field of the family.
InitRoundTrip ==
    /\ \E n \in 1 .. MaxSize, lx, ly \in 1 .. MaxLocal : Mesh(n, lx, ly)
    /\ CUTOFF = HeatSteps
    /\ buffered = TRUE
    /\ \E b, k \in 0 .. MaxField :
          /\ temperature = Field(temperature_size, 20 + b, k)
          /\ material = Field(material_size, 1, k)
    /\ loaded = temperature
    /\ Constructed
    /\ pc = [w \in Ranks |-> "scatter_material"]

Next ==
    \E w \in Procs :
        \/ ScatterMaterial(w)
        \/ ScatterTemp(w)
        \/ ForInit(w)
        \/ ExternalHeat(w)
        \/ NullCall(w)
        \/ SendEager(w)
        \/ RecvEager(w)
        \/ SendSync(w)
        \/ FtcsSolver(w)
        \/ GatherTemp(w)
        \/ WriteTemp(w)
        \/ ForNext(w)

Spec == Init /\ [][Next]_vars

(***************************************************************************)
(* The round trip: scatter_material and scatter_temp as in main, then      *)
(* gather_temp(0) at once.                                                 *)
(***************************************************************************)
RoundTripScatterTemp(w) == ScatterTempThen(w, "gather_temp")

RoundTripGatherTemp(w) == GatherTempThen(w, "done")

NextRoundTrip ==
    \E w \in Procs :
        \/ ScatterMaterial(w)
        \/ RoundTripScatterTemp(w)
        \/ RoundTripGatherTemp(w)

SpecRoundTrip == InitRoundTrip /\ [][NextRoundTrip]_vars

(***************************************************************************)
(* One call of ftcs_solver on one rank, from any buffers of the family.    *)
(***************************************************************************)
InitStencil ==
    /\ \E lx, ly \in 1 .. MaxLocal : Mesh(1, lx, ly)
    /\ CUTOFF = HeatSteps
    /\ buffered = TRUE
    /\ temperature = Field(temperature_size, 20, 0)
    /\ material = Field(material_size, 1, 0)
    /\ loaded = temperature
    /\ Started
    /\ \E s \in 0 .. 1 : step = [w \in Ranks |-> s]
    /\ \E a, k, b \in 0 .. MaxField :
          local_temp = [w \in Ranks |-> [i \in 0 .. 1 |->
                           IF i = step[w] % 2 THEN Field(lsize_borders, FILL + a, k)
                                              ELSE Field(lsize_borders, 50 + b, 1)]]
    /\ \E c, k \in 0 .. MaxField : local_material = [w \in Ranks |-> Field(lsize, c, k)]
    /\ pc = [w \in Ranks |-> "ftcs_solver"]

StencilFtcsSolver(w) == FtcsSolverThen(w, "done")

NextStencil == \E w \in Procs : StencilFtcsSolver(w)

SpecStencil == InitStencil /\ [][NextStencil]_vars

(***************************************************************************)
(* The end-to-end scenario: an 8x8 grid on a 2x2 mesh, uniform temperature *)
(* 20, uniform material, no external heat (CUTOFF = 0).                    *)
(***************************************************************************)
InitScenario ==
    /\ Mesh(4, 4, 4)
    /\ CUTOFF = 0
    /\ buffered \in BOOLEAN
    /\ temperature = Field(temperature_size, 20, 0)
    /\ \E c \in 0 .. MaxField : material = Field(material_size, c, 0)
    /\ loaded = temperature
    /\ Constructed
    /\ pc = [w \in Ranks |-> "scatter_material"]

SpecScenario == InitScenario /\ [][Next]_vars

(***************************************************************************)
(* The run with MPI_Send in rendezvous mode only (no transport buffering), *)
(* every rank scheduled fairly: a rank that can take its next statement    *)
(* takes it.                                                               *)
(***************************************************************************)
InitSync == Init /\ buffered = FALSE

\* The statements rank w can take when no send is buffered.
SyncStep(w) ==
    \/ ScatterMaterial(w)
    \/ ScatterTemp(w)
    \/ ForInit(w)
    \/ ExternalHeat(w)
    \/ NullCall(w)
    \/ SendSync(w)
    \/ FtcsSolver(w)
    \/ GatherTemp(w)
    \/ WriteTemp(w)
    \/ ForNext(w)

NextSync == \E w \in Procs : SyncStep(w)

SpecSync == InitSync /\ [][NextSync]_vars /\ \A w \in Procs : WF_vars(SyncStep(w))

(***************************************************************************)
(* Properties.                                                             *)
(***************************************************************************)
Directions == {"north", "south", "west", "east"}

\* Rank w has returned from border_exchange(step[w]) and not yet started
\* the next iteration.
Exchanged(w) == pc[w] \in {"ftcs_solver", "gather_temp", "write_temp", "for_next"}

\* The cells of the ghost row or column of a rank on side d, and the cells
\* of the interior row or column of its neighbour that lie against them,
\* as pairs of local coordinates <<ghost, interior>>.
Facing(d) ==
    LET lx == local_grid_size[0]
        ly == local_grid_size[1]
    IN  CASE d = "north" -> { <<x, -1, x, ly - 1>> : x \in 0 .. lx - 1 }
          [] d = "south" -> { <<x, ly, x, 0>> : x \in 0 .. lx - 1 }
          [] d = "west"  -> { <<-1, y, lx - 1, y>> : y \in 0 .. ly - 1 }
          [] d = "east"  -> { <<lx, y, 0, y>> : y \in 0 .. ly - 1 }

\* The cell (x, y) of a buffer with a ghost border, by its row and column.
Cell(buf, x, y) == buf[(y + 1) * (local_grid_size[0] + 2) + (x + 1)]

\* C1: once border_exchange(s) has returned on all ranks, every ghost row
\* or column of a rank that has a neighbour on that side equals, cell for
\* cell, the neighbour's adjacent interior row or column, both in the
\* current buffer local_temp[s mod 2].
C1_HaloEqualsNeighbourInterior ==
    (\A w \in Ranks : Exchanged(w) /\ step[w] = step[0]) =>
        \A w \in Ranks : \A d \in Directions :
            Neighbour(w, d) \in Ranks =>
                \A f \in Facing(d) :
                    Cell(local_temp[w][step[w] % 2], f[1], f[2])
                        = Cell(local_temp[Neighbour(w, d)][step[w] % 2], f[3], f[4])

\* Rank w is at a call of border_exchange whose peer is MPI_PROC_NULL.
AtNullPeerCall(w) == InExchange(w) /\ PeerOf(w, CurrentCall(w)) = MPI_PROC_NULL

\* Rank w returns from a call in this step.
CallReturns(w) == call'[w] # call[w] \/ pc'[w] # pc[w]

C3_RoundTripIsIdentity == pc[0] = "done" => temperature = loaded

\* Rank 0 of a two-dimensional mesh has gathered a field of distinct values.
C3_Witness ==
    /\ pc[0] = "done"
    /\ dims[1] > 1
    /\ Len(snap[0]) = 1
    /\ \A i, j \in DOMAIN temperature : i # j => temperature[i] # temperature[j]

\* The displacement table of rank 0 is filled.
TableFilled == pc[0] # "scatter_material"

\* The cells of the global array in the block of rank r.
BlockCells(r) ==
    LET off == TypeOffsets(sendcounts[0][r], localCart)
    IN  { displs[0][r] * localCart.extent + off[k] : k \in 1 .. Len(off) }

RECURSIVE SumOver(_, _)
SumOver(f, S) ==
    IF S = {} THEN 0 ELSE LET r == CHOOSE r \in S : TRUE IN f[r] + SumOver(f, S \ {r})

\* C4: the blocks that the displacement table and the block type select
\* partition the global grid: every cell lies in the block of exactly one
\* rank, and the block sizes add up to GRID_SIZE[0]*GRID_SIZE[1].
C4_BlocksPartitionGrid ==
    TableFilled =>
        /\ \A i \in 0 .. GRID_SIZE[0] * GRID_SIZE[1] - 1 :
               Cardinality({ r \in Ranks : i \in BlockCells(r) }) = 1
        /\ \A r \in Ranks : BlockCells(r) \subseteq 0 .. GRID_SIZE[0] * GRID_SIZE[1] - 1
        /\ SumOver([r \in Ranks |-> Cardinality(BlockCells(r))], Ranks)
               = GRID_SIZE[0] * GRID_SIZE[1]

\* The table is filled for a 2x2 mesh whose blocks are not square.
C4_Witness ==
    /\ TableFilled
    /\ dims = Pair(2, 2)
    /\ local_grid_size = Pair(1, 2)
    /\ BlockCells(3) = {5, 7}

\* The rank that owns a coordinate of the mesh.
Owner(x, y) == CHOOSE r \in Ranks : coords(r) = Pair(x, y)

\* C5: helpFunctionForDisplacement on rank 0 gives the rank that owns mesh
\* coordinate (x, y) the displacement y*local_grid_size[1]*GRID_SIZE[0] +
\* x*local_grid_size[0] and the count 1, every rank once (10 for (1,1) on
\* a 2x2 mesh over a 4x4 grid), and no block of a scatter or gather exists
\* before the table is filled.
C5_DisplacementTable ==
    /\ TableFilled =>
          /\ \A x \in 0 .. dims[0] - 1 : \A y \in 0 .. dims[1] - 1 :
                 /\ displs[0][Owner(x, y)]
                        = y * local_grid_size[1] * GRID_SIZE[0] + x * local_grid_size[0]
                 /\ sendcounts[0][Owner(x, y)] = 1
          /\ \A r \in Ranks :
                 Cardinality({ c \in (0 .. dims[0] - 1) \X (0 .. dims[1] - 1) :
                                  Owner(c[1], c[2]) = r }) = 1
          /\ (dims = Pair(2, 2) /\ GRID_SIZE = Pair(4, 4)) => displs[0][Owner(1, 1)] = 10
    /\ ~TableFilled =>
          \A w \in Ranks : pc[w] = "scatter_material" /\ scat[w] = <<>> /\ gath[w] = <<>>

\* The table of the 2x2 mesh over the 4x4 grid is filled and in use.
C5_Witness ==
    /\ TableFilled
    /\ dims = Pair(2, 2)
    /\ GRID_SIZE = Pair(4, 4)
    /\ displs[0] = [r \in Ranks |-> IF r = 0 THEN 0 ELSE IF r = 1 THEN 8
                                    ELSE IF r = 2 THEN 2 ELSE 10]
    /\ pc[3] = "done"

\* The local coordinates of the cells a rank owns, and of all its cells.
Interior == (0 .. local_grid_size[0] - 1) \X (0 .. local_grid_size[1] - 1)

AllCells == (-1 .. local_grid_size[0]) \X (-1 .. local_grid_size[1])

\* Rank w has returned from ftcs_solver(step[w]) and not yet started the
\* next iteration.
Solved(w) == pc[w] \in {"gather_temp", "write_temp", "for_next"}

\* C6: on the 8x8 grid and the 2x2 mesh, with uniform temperature 20,
\* uniform material and no external heat, after border_exchange(0) and
\* ftcs_solver(0) every interior cell of every rank's updated buffer holds
\* 20, and the field gathered at step 0 is 20 everywhere.
C6_UniformFieldStaysUniform ==
    /\ \A w \in Ranks :
           (step[w] = 0 /\ Solved(w)) =>
               \A c \in Interior : Cell(local_temp[w][1], c[1], c[2]) = 20
    /\ (step[0] = 0 /\ pc[0] = "write_temp") =>
           \A i \in DOMAIN temperature : temperature[i] = 20

NorthSouthCalls == {"send_north", "recv_north", "recv_south", "send_south"}

WestEastCalls == {"send_west", "recv_west", "recv_east", "send_east"}

\* C7: a rank makes a west or east call of border_exchange(s) only after
\* its north and south calls of step s have returned, and starts
\* ftcs_solver(s) only after all eight calls of step s have returned.
C7_ExchangeBeforeSolver ==
    [][\A w \in Ranks :
          /\ (xdone'[w] \ xdone[w]) \cap WestEastCalls # {} =>
                 NorthSouthCalls \subseteq xdone[w]
          /\ (pc[w] = "ftcs_solver" /\ pc'[w] # "ftcs_solver") =>
                 xdone[w] = NorthSouthCalls \cup WestEastCalls]_vars

\* A rank of the 2x2 mesh has run the solver of step 1 after a full exchange.
C7_Witness ==
    /\ dims = Pair(2, 2)
    /\ \E w \in Ranks :
           /\ step[w] = 1
           /\ pc[w] = "for_next"
           /\ xdone[w] = NorthSouthCalls \cup WestEastCalls

\* Rank w runs ftcs_solver in this step.
SolverRuns(w) == pc[w] = "ftcs_solver" /\ pc'[w] # "ftcs_solver"

\* C8: ftcs_solver(s) leaves local_temp[s mod 2] and local_material as they
\* are, sets every interior cell (x, y) of local_temp[(s+1) mod 2] to
\* in[x,y] + material[x,y]*(in[x+1,y] + in[x-1,y] + in[x,y+1] + in[x,y-1]
\* - 4*in[x,y]), and writes no ghost cell of that buffer.
C8_SolverFrame ==
    [][\A w \in Ranks :
          SolverRuns(w) =>
              LET s   == step[w]
                  in  == local_temp[w][s % 2]
                  out == local_temp[w][(s + 1) % 2]
                  new == local_temp'[w][(s + 1) % 2]
                  mat == local_material[w]
                  m(x, y) == mat[y * local_grid_size[0] + x]
              IN  /\ local_temp'[w][s % 2] = in
                  /\ local_material'[w] = mat
                  /\ DOMAIN new = DOMAIN out
                  /\ \A c \in AllCells :
                         LET x == c[1]
                             y == c[2]
                         IN  Cell(new, x, y) =
                                 IF c \in Interior
                                    THEN Cell(in, x, y) + m(x, y) *
                                             (Cell(in, x + 1, y) + Cell(in, x - 1, y)
                                              + Cell(in, x, y + 1) + Cell(in, x, y - 1)
                                              - 4 * Cell(in, x, y))
                                    ELSE Cell(out, x, y)]_vars

\* The solver of step 1 has run on a 2x2 block with a material that is
\* not uniform, and has changed an interior cell but no ghost cell.
C8_Witness ==
    /\ pc[0] = "done"
    /\ step[0] = 1
    /\ local_grid_size = Pair(2, 2)
    /\ local_material[0][0] # local_material[0][1]
    /\ \E b \in 0 .. MaxField :
           /\ \A c \in AllCells \ Interior :
                  Cell(local_temp[0][0], c[1], c[2])
                      = Cell(Field(lsize_borders, 50 + b, 1), c[1], c[2])
           /\ \E c \in Interior :
                  Cell(local_temp[0][0], c[1], c[2])
                      # Cell(Field(lsize_borders, 50 + b, 1), c[1], c[2])

Uniform(f) == \A i, j \in DOMAIN f : f[i] = f[j]

\* C9: if every cell of the current buffer, ghost cells included, holds
\* the same value v and the material is uniform, then after ftcs_solver
\* every interior cell of the next buffer holds v.
C9_ConstantFieldIsFixed ==
    [][\A w \in Ranks :
          (SolverRuns(w) /\ Uniform(local_temp[w][step[w] % 2]) /\ Uniform(local_material[w])) =>
              \A c \in Interior :
                  Cell(local_temp'[w][(step[w] + 1) % 2], c[1], c[2])
                      = local_temp[w][step[w] % 2][0]]_vars

\* The solver has run on a constant 2x2 block with a uniform material that
\* is not zero: the interior of the next buffer holds the constant, its
\* ghost cells do not.
C9_Witness ==
    /\ pc[0] = "done"
    /\ local_grid_size = Pair(2, 2)
    /\ Uniform(local_temp[0][step[0] % 2])
    /\ Uniform(local_material[0])
    /\ local_material[0][0] # 0
    /\ \A c \in Interior :
           Cell(local_temp[0][(step[0] + 1) % 2], c[1], c[2]) = local_temp[0][step[0] % 2][0]
    /\ \A c \in AllCells \ Interior :
           Cell(local_temp[0][(step[0] + 1) % 2], c[1], c[2]) # local_temp[0][step[0] % 2][0]

\* C10: when rank 0 is at write_temp(s), the global temperature array holds
\* for every rank w, at the cells of w's block, the interior cells of the
\* buffer local_temp[s mod 2] of w as they were when w called
\* gather_temp(s); every block is of step s and no cell holds a ghost value.
C10_SnapshotIsConsistent ==
    pc[0] = "write_temp" =>
        \A w \in Ranks :
            \E i \in 1 .. Len(snap[w]) :
                /\ snap[w][i].step = step[0]
                /\ \A c \in Interior :
                       temperature[(local_origin(w)[1] + c[2]) * GRID_SIZE[0]
                                       + local_origin(w)[0] + c[1]]
                           = Cell(snap[w][i].buf, c[1], c[2])

\* Rank 0 of a 2x2 mesh is at write_temp of the second snapshot step: every
\* rank has gathered twice, from buffers that differ between the two
\* snapshots, and another rank has already left the loop.
C10_Witness ==
    /\ pc[0] = "write_temp"
    /\ step[0] = SNAPSHOT
    /\ dims = Pair(2, 2)
    /\ local_grid_size = Pair(2, 2)
    /\ ~Uniform(temperature)
    /\ \A w \in Ranks : Len(snap[w]) = 2 /\ snap[w][1].buf # snap[w][2].buf
    /\ \E w \in Ranks \ {0} : pc[w] = "done"

\* Every rank has left the loop after NSTEPS iterations.
Finished == \A w \in Ranks : pc[w] = "done" /\ step[w] = NSTEPS

\* C11: with sends that return only at the matching receive and ranks
\* scheduled fairly, no rank stays blocked in border_exchange or in a
\* collective: every rank makes NSTEPS iterations of the loop and finishes,
\* and never makes more.
C11_RunTerminates ==
    /\ <>[]Finished
    /\ [](\A w \in Ranks : step[w] <= NSTEPS /\ (pc[w] = "done" => step[w] = NSTEPS))

\* The ranks of a 2x2 mesh have all finished a run without buffering.
C11_Witness ==
    /\ ~buffered
    /\ dims = Pair(2, 2)
    /\ Finished
    /\ \A w \in Ranks : Len(snap[w]) = 2

\* Rank w is at a send of border_exchange to a neighbour that exists.
AtSend(w) ==
    /\ InExchange(w)
    /\ CurrentCall(w).kind = "send"
    /\ PeerOf(w, CurrentCall(w)) \in Ranks

\* The local coordinates of the cell at index i of a buffer with ghost border.
CoordsOf(i) == <<(i % (local_grid_size[0] + 2)) - 1, (i \div (local_grid_size[0] + 2)) - 1>>

\* The cells a call of border_exchange addresses, as local coordinates.
CellsOf(c) ==
    LET off == TypeOffsets(1, BorderType(c))
    IN  { CoordsOf(lti(c.x, c.y) + off[k]) : k \in 1 .. Len(off) }

\* The interior row or column of a rank that lies against its side d.
InteriorLine(d) ==
    LET lx == local_grid_size[0]
        ly == local_grid_size[1]
    IN  CASE d = "north" -> { <<x, 0>> : x \in 0 .. lx - 1 }
          [] d = "south" -> { <<x, ly - 1>> : x \in 0 .. lx - 1 }
          [] d = "west"  -> { <<0, y>> : y \in 0 .. ly - 1 }
          [] d = "east"  -> { <<lx - 1, y>> : y \in 0 .. ly - 1 }

\* C12: the cells a rank sends in border_exchange are interior cells only:
\* row 0 to north, row local_grid_size[1]-1 to south, column 0 to west and
\* column local_grid_size[0]-1 to east; no ghost cell is sent.
C12_SendsInteriorLine ==
    \A w \in Ranks :
        AtSend(w) =>
            /\ CellsOf(CurrentCall(w)) = InteriorLine(CurrentCall(w).peer)
            /\ CellsOf(CurrentCall(w)) \subseteq Interior

\* C13: the values a rank sends in border_exchange(s) are those of the
\* buffer local_temp[s mod 2], the one external_heat(s) stamps and
\* ftcs_solver(s) reads, so that no receiver gets a value of an earlier
\* step or the initial fill.
C13_SendsCurrentBuffer ==
    \A w \in Ranks :
        AtSend(w) =>
            /\ BufferOf(step[w], CurrentCall(w)) = step[w] % 2
            /\ SendData(w, CurrentCall(w))
                   = Pack(local_temp[w][step[w] % 2],
                          lti(CurrentCall(w).x, CurrentCall(w).y), 1,
                          BorderType(CurrentCall(w)))

\* The four corner cells of the ghost border.
Corners ==
    { <<x, y>> : x \in {-1, local_grid_size[0]}, y \in {-1, local_grid_size[1]} }

\* The ghost row or column of a rank on its side d, without the corners.
GhostLine(d) ==
    LET lx == local_grid_size[0]
        ly == local_grid_size[1]
    IN  CASE d = "north" -> { <<x, -1>> : x \in 0 .. lx - 1 }
          [] d = "south" -> { <<x, ly>> : x \in 0 .. lx - 1 }
          [] d = "west"  -> { <<-1, y>> : y \in 0 .. ly - 1 }
          [] d = "east"  -> { <<lx, y>> : y \in 0 .. ly - 1 }

\* C14: while a rank is in border_exchange(s), the only cells of its that
\* change are cells of the ghost row or column of local_temp[s mod 2] on
\* the side of the receive it is at: the interior cells and the four corner
\* cells of that buffer, all of the other buffer and local_material stay
\* as they are.
C14_ExchangeFrame ==
    [][\A w \in Ranks :
          pc[w] = "border_exchange" =>
              LET s   == step[w]
                  old == local_temp[w][s % 2]
                  new == local_temp'[w][s % 2]
              IN  /\ local_temp'[w][(s + 1) % 2] = local_temp[w][(s + 1) % 2]
                  /\ local_material'[w] = local_material[w]
                  /\ DOMAIN new = DOMAIN old
                  /\ \A c \in Interior \cup Corners : Cell(new, c[1], c[2]) = Cell(old, c[1], c[2])
                  /\ \A c \in AllCells :
                         Cell(new, c[1], c[2]) # Cell(old, c[1], c[2]) =>
                             /\ CurrentCall(w).kind = "recv"
                             /\ c \in GhostLine(CurrentCall(w).peer)]_vars

\* A rank of the 2x2 mesh has returned from border_exchange(1) with ghost
\* cells on both sides that have a neighbour changed, and its corners and
\* the ghost cells of the other sides still at the initial fill.
C14_Witness ==
    /\ dims = Pair(2, 2)
    /\ local_grid_size = Pair(2, 2)
    /\ pc[0] = "ftcs_solver"
    /\ step[0] = 1
    /\ \A c \in GhostLine("south") \cup GhostLine("east") :
           Cell(local_temp[0][1], c[1], c[2]) # FILL
    /\ \A c \in Corners \cup GhostLine("north") \cup GhostLine("west") :
           Cell(local_temp[0][1], c[1], c[2]) = FILL

\* Rank w is at a call of border_exchange with a neighbour that exists.
AtCall(w, kind, d) ==
    /\ InExchange(w)
    /\ CurrentCall(w).kind = kind
    /\ CurrentCall(w).peer = d
    /\ Neighbour(w, d) \in Ranks

\* Rank w has returned from its send (receive) in direction d in this step.
Sent(w, d) == ("send_" \o d) \in xdone[w]

Received(w, d) == ("recv_" \o d) \in xdone[w]

\* C15 as stated: in every direction a rank sends to its neighbour before
\* it receives from it.
C15_SendBeforeReceive ==
    \A w \in Ranks : \A d \in Directions :
        AtCall(w, "recv", d) => Sent(w, d)

\* C15 as the code has it: to north and to west a rank sends before it
\* receives; to south and to east it receives before it sends.
C15_SendFirstNorthWestOnly ==
    \A w \in Ranks :
        /\ \A d \in {"north", "west"} :
               /\ AtCall(w, "recv", d) => Sent(w, d)
               /\ AtCall(w, "send", d) => ~Received(w, d)
        /\ \A d \in {"south", "east"} :
               /\ AtCall(w, "send", d) => Received(w, d)
               /\ AtCall(w, "recv", d) => ~Sent(w, d)

\* The middle rank of a 3x1 mesh is at its send to east, after its send to
\* and receive from west and its receive from east.
C15_Witness ==
    /\ size = 3
    /\ AtCall(1, "send", "east")
    /\ Sent(1, "west") /\ Received(1, "west") /\ Received(1, "east")
    /\ step[1] = 1

\* Rank w has returned from scatter_material (from scatter_temp).
MaterialScattered(w) == pc[w] \notin {"scatter_material"}

TempScattered(w) == pc[w] \notin {"scatter_material", "scatter_temp"}

\* C16: after the scatters, every interior cell (x, y) of local_temp[0] and
\* of local_material of every rank holds the value rank 0 has for the
\* global cell (local_origin[0]+x, local_origin[1]+y); scatter_temp writes
\* no ghost cell and leaves local_temp[1] alone.
C16_ScatterAgreesWithOrigin ==
    \A w \in Ranks :
        /\ MaterialScattered(w) =>
               \A c \in Interior :
                   local_material[w][lmi(c[1], c[2])]
                       = material[mi(local_origin(w)[0] + c[1], local_origin(w)[1] + c[2])]
        /\ TempScattered(w) =>
               /\ \A c \in Interior :
                      local_temp[w][0][lti(c[1], c[2])]
                          = loaded[ti(local_origin(w)[0] + c[1], local_origin(w)[1] + c[2])]
               /\ \A c \in AllCells \ Interior :
                      local_temp[w][0][lti(c[1], c[2])] = init_local_temp[0][lti(c[1], c[2])]
               /\ local_temp[w][1] = init_local_temp[1]

\* The last rank of a 2x2 mesh with blocks that are not square holds its
\* block of a field and a material whose cells all differ.
C16_Witness ==
    /\ dims = Pair(2, 2)
    /\ local_grid_size = Pair(1, 2)
    /\ TempScattered(3)
    /\ \A i, j \in DOMAIN loaded : i # j => loaded[i] # loaded[j] /\ material[i] # material[j]
    /\ local_temp[3][0][lti(0, 1)] = loaded[ti(1, 3)]
    /\ local_material[3][lmi(0, 1)] = material[mi(1, 3)]

\* The global coordinates of the grid.
GridCells == (0 .. GRID_SIZE[0] - 1) \X (0 .. GRID_SIZE[1] - 1)

\* Rank w runs the external_heat statement of its loop in this step.
HeatRuns(w) == pc[w] = "external_heat" /\ pc'[w] # "external_heat"

\* C17: every global coordinate is inside() on exactly one rank, and there
\* lti of the coordinate relative to local_origin is an interior cell; so
\* external_heat(s) sets each cell of the heat patch on one rank only, in
\* buffer local_temp[s mod 2] only, in no ghost cell, and only when
\* s < CUTOFF.
C17_HeatStampsOwnedCells ==
    /\ [](\A g \in GridCells :
             /\ Cardinality({ w \in Ranks : inside(w, g[1], g[2]) }) = 1
             /\ \A w \in Ranks :
                    inside(w, g[1], g[2]) =>
                        CoordsOf(lti(g[1] - local_origin(w)[0], g[2] - local_origin(w)[1]))
                            \in Interior)
    /\ [][\A w \in Ranks :
              HeatRuns(w) =>
                  LET s   == step[w]
                      old == local_temp[w][s % 2]
                      new == local_temp'[w][s % 2]
                      o   == local_origin(w)
                  IN  /\ local_temp'[w][(s + 1) % 2] = local_temp[w][(s + 1) % 2]
                      /\ DOMAIN new = DOMAIN old
                      /\ \A c \in AllCells :
                             Cell(new, c[1], c[2]) =
                                 IF /\ s < CUTOFF
                                    /\ c \in Interior
                                    /\ <<o[0] + c[1], o[1] + c[2]>> \in HeatPatch
                                    THEN HEAT
                                    ELSE Cell(old, c[1], c[2])]_vars

\* On the 4x4 grid of a 2x2 mesh the patch is cells (1,2), (2,2), (3,2):
\* rank 1 has stamped one cell and rank 3 two cells at step 0, rank 0 none,
\* and rank 3 has passed external_heat at step 1 = CUTOFF without a stamp.
\* Ranks 0 and 1 are still in step 0.
C17_Witness ==
    /\ dims = Pair(2, 2)
    /\ local_grid_size = Pair(2, 2)
    /\ HeatPatch = {<<1, 2>>, <<2, 2>>, <<3, 2>>}
    /\ step[1] = 0 /\ pc[1] = "ftcs_solver"
    /\ Cell(local_temp[1][0], 1, 0) = HEAT /\ Cell(local_temp[1][0], 0, 0) # HEAT
    /\ step[0] = 0 /\ pc[0] = "border_exchange"
    /\ \A c \in AllCells : Cell(local_temp[0][0], c[1], c[2]) # HEAT
    /\ step[3] = 1 /\ pc[3] = "border_exchange" /\ CUTOFF = 1
    /\ Cell(local_temp[3][0], 0, 0) = HEAT /\ Cell(local_temp[3][0], 1, 0) = HEAT
    /\ Cell(local_temp[3][1], 0, 0) # HEAT

\* The side of a neighbour that faces the side d of a rank.
Opposite(d) ==
    CASE d = "north" -> "south"
      [] d = "south" -> "north"
      [] d = "west"  -> "east"
      [] d = "east"  -> "west"

\* C18: every receive a rank makes in direction d at step s gets the
\* message its neighbour in direction d sent at the same step s towards
\* the opposite direction: with buffering the head of the channel from that
\* neighbour, without buffering the send the neighbour is blocked in.
C18_ReceiveMatchesSend ==
    [][\A w \in Ranks : \A d \in Directions :
          (AtCall(w, "recv", d) /\ CallReturns(w)) =>
              LET p == Neighbour(w, d)
              IN  IF buffered
                     THEN /\ chan[<<p, w>>] # <<>>
                          /\ Head(chan[<<p, w>>]).step = step[w]
                          /\ Head(chan[<<p, w>>]).call = "send_" \o Opposite(d)
                          /\ chan'[<<p, w>>] = Tail(chan[<<p, w>>])
                     ELSE /\ InExchange(p)
                          /\ step[p] = step[w]
                          /\ CurrentCall(p).name = "send_" \o Opposite(d)
                          /\ Neighbour(p, Opposite(d)) = w
                          /\ CallReturns(p)]_vars

\* The middle rank of a 3x1 mesh has received from west and from east in
\* border_exchange(1) while the next message of its east neighbour, sent at
\* step 2, is already in flight.
C18_Witness ==
    /\ size = 3
    /\ buffered
    /\ step[1] = 1
    /\ pc[1] = "ftcs_solver"
    /\ {"recv_west", "recv_east"} \subseteq xdone[1]
    /\ Len(chan[<<2, 1>>]) = 1
    /\ Head(chan[<<2, 1>>]).step = 2

\* Ranks w and p are neighbours on the mesh.
Adjacent(w, p) == \E d \in Directions : Neighbour(w, d) = p

\* Rank p has entered border_exchange(s).
Entered(p, s) ==
    \/ step[p] > s
    \/ step[p] = s /\ (pc[p] = "border_exchange" \/ Exchanged(p))

\* Rank w has returned from border_exchange(s).
Completed(w, s) ==
    \/ step[w] > s
    \/ step[w] = s /\ Exchanged(w)

\* C19: the step counters of two neighbouring ranks differ by at most 1,
\* and no rank has returned from border_exchange(s) while a neighbour of
\* its has not entered border_exchange(s), with and without buffering.
C19_NeighbourSkewAtMostOne ==
    \A w, p \in Ranks :
        Adjacent(w, p) =>
            /\ step[w] - step[p] \in {-1, 0, 1}
            /\ \A s \in 0 .. NSTEPS - 1 : Completed(w, s) => Entered(p, s)

\* Without buffering, a rank of the 2x2 mesh is in border_exchange(2) while
\* a neighbour of its is still in border_exchange(1).
C19_Witness ==
    /\ ~buffered
    /\ dims = Pair(2, 2)
    /\ \E w, p \in Ranks :
           /\ Adjacent(w, p)
           /\ step[w] = 2 /\ InExchange(w)
           /\ step[p] = 1 /\ InExchange(p)

====
